---- MODULE Spec2Model ----
(***************************************************************************)
(* A model of the UMA-8 input session of src/src/uma8.cpp: the session     *)
(* object (struct Input), open(), the worker thread (Input::run) with its  *)
(* isochronous and interrupt completion callbacks, the uv_async drain      *)
(* callback that delivers to the listeners, the listener registry (on,     *)
(* removeListener, removeAllListeners) and the destructor.                 *)
(*                                                                         *)
(* Two threads act on the state: the host (event loop) thread and the      *)
(* worker.  A critical section of the worker is one action guarded by the  *)
(* mutex being free; the host's drain callback holds the mutex over        *)
(* several actions, so the variable mutex is "host" or "none" between      *)
(* actions.                                                                *)
(***************************************************************************)
EXTENDS Integers, Sequences, FiniteSets, TLC

VARIABLES
    opened,          \* Input::opened
    stopped,         \* Input::stopped
    pendingCancels,  \* Input::pendingCancels
    error,           \* Input::error ("" is the empty string)
    datas,           \* Input::datas, the queued audio frames
    metas,           \* Input::metas, the queued metadata records
    ons,             \* Input::ons, event name -> list of callbacks
    handle,          \* Input::handle: "null", "open" or "closed" (dangling)
    mutex,           \* owner of Input::mutex between actions
    asyncState,      \* Input::async: "uninit", "active" or "closed"
    asyncPending,    \* a uv_async_send not yet delivered (sends coalesce)
    threads,         \* number of uv_thread_create calls made by open
    asyncInits,      \* number of uv_async_init calls made by open
    openResult,      \* the outcome of the latest open call
    isoXfr,          \* state of iso.transfers[i].xfr
    irqXfr,          \* state of irq.xfr
    wpc,             \* position of the worker thread in Input::run
    wi,              \* loop index i of the allocation loop of Input::run
    hostpc,          \* position of the host thread
    dkind,           \* the queue the drain callback is walking
    di,              \* position of the iterator it in that queue
    li,              \* position of the range-for iterator in ons[name]
    lend,            \* the end position the range-for cached
    invalid,         \* the storage the range-for walks has been released
    snapshot,        \* history: ons[name] when the pass over the listeners began
    invoked,         \* history: the callbacks the pass has called so far
    lastId,          \* history: per event name, the id of the item of the latest listener call that returned
    raised,          \* history: the error last thrown on the host thread ("" for none)
    drained,         \* history: per event name, the id of the latest item the drain reached
    unlockedWrite,   \* history: a field the mutex guards was written without the mutex held
    destroyed,       \* the destructor has returned
    produced,        \* number of audio frames enqueued so far
    producedMeta,    \* number of metadata records enqueued so far
    lastOp           \* history: the latest registry operation and its result

vars == <<opened, stopped, pendingCancels, error, datas, metas, ons, handle,
          mutex, asyncState, asyncPending, threads, asyncInits,
          openResult, isoXfr, irqXfr, wpc, wi, hostpc, dkind, di, li, lend,
          invalid, snapshot, invoked, lastId, raised, drained, unlockedWrite,
          destroyed, produced, producedMeta, lastOp>>

(***************************************************************************)
(* Sizes.  The source has NumTransfer = 10 and NumPackets = 100; the model *)
(* keeps the code's dependence on them and checks small instances.         *)
(***************************************************************************)
NumTransfer == 2
NumPackets == 2
PacketSize == 24
MaxFrames == 2
MaxMetas == 1
MaxListeners == 3
MaxWalked == 2
MaxHostListeners == 1

Slots == 1..NumTransfer
Names == {"audio", "metadata"}
Callbacks == {"f", "g"}
TransferStatuses == {"COMPLETED", "ERROR", "CANCELLED"}
PacketStatuses == {"COMPLETED", "ERROR"}
PacketStatusVecs == [1..NumPackets -> PacketStatuses]
AllCompleted == [i \in 1..NumPackets |-> "COMPLETED"]

NoOp == [op |-> "none", ret |-> FALSE]
NoOpen == [called |-> FALSE, err |-> "", threadsBefore |-> 0, openedBefore |-> FALSE,
           bus |-> 0, port |-> 0]

----------------------------------------------------------------------------
(* v8::Value::IsUint32, the only test NAN_METHOD(open) makes of bus and port *)
IsUint32(v) == v >= 0 /\ v \div 65536 < 65536

(* uint8_t conversion of the bus and port arguments of Input::open *)
ToUint8(v) == v % 256

(* the matching devices attached, as (bus, port) *)
Devices == {<<1, 1>>}
BusValues == {1, 2}
PortValues == {1}

(* the bus and port values tried when open's arguments are the subject *)
ArgValues == {-1, 0, 1, 2, 255, 256, 257}

(* the loop over the device list: does some device match (bus, port)? *)
DeviceMatches(bus, port) ==
    \E d \in Devices : d[1] = ToUint8(bus) /\ d[2] = ToUint8(port)

----------------------------------------------------------------------------
(* The listener registry *)

(* the registry of a new session: no name *)
EmptyRegistry == [n \in {} |-> <<>>]

(* std::vector::erase of position p *)
Erase(list, p) == SubSeq(list, 1, p - 1) \o SubSeq(list, p + 1, Len(list))

(* std::unordered_map::erase of a key *)
EraseName(o, name) == [n \in (DOMAIN o) \ {name} |-> o[n]]

(* ons[name]: operator[] default-constructs the list of an absent name *)
Subscript(o, name) == IF name \in DOMAIN o THEN o ELSE o @@ (name :> <<>>)

(* on: ons[name].push_back(cb) *)
OnOp(o, name, cb) == [Subscript(o, name) EXCEPT ![name] = Append(@, cb)]

(* a forward scan in place of the reverse one: the position of the earliest
   match among the first i entries, 0 when there is none *)
ForwardFind(list, i, cb) ==
    LET occ == {k \in 1..i : list[k] = cb} IN
    IF occ = {} THEN 0 ELSE CHOOSE k \in occ : \A j \in occ : k <= j

(* the reverse scan of removeListener from position i down: the position of
   the first match met, 0 when the scan reaches rend *)
RECURSIVE ReverseFind(_, _, _)
ReverseFind(list, i, cb) ==
    IF i = 0 THEN 0
    ELSE IF list[i] = cb THEN i
    ELSE ReverseFind(list, i - 1, cb)

(* removeListener: the registry afterwards and the value returned *)
RemoveListenerOp(o, name, cb) ==
    IF name \notin DOMAIN o THEN [ons |-> o, ret |-> FALSE]
    ELSE LET p == ReverseFind(o[name], Len(o[name]), cb) IN
         IF p = 0 THEN [ons |-> o, ret |-> FALSE]
         ELSE LET rest == Erase(o[name], p) IN
              [ons |-> IF rest = <<>> THEN EraseName(o, name)
                       ELSE [o EXCEPT ![name] = rest],
               ret |-> TRUE]

(* removeAllListeners: the registry afterwards and the value returned *)
RemoveAllListenersOp(o, name) ==
    IF name \in DOMAIN o THEN [ons |-> EraseName(o, name), ret |-> TRUE]
    ELSE [ons |-> o, ret |-> FALSE]

----------------------------------------------------------------------------
(* Input::Input, then create() succeeding: the state after construction *)
Init ==
    /\ opened = FALSE
    /\ stopped = FALSE
    /\ pendingCancels = -1
    /\ error = ""
    /\ datas = <<>>
    /\ metas = <<>>
    /\ ons = EmptyRegistry
    /\ handle = "null"
    /\ mutex = "none"
    /\ asyncState = "uninit"
    /\ asyncPending = FALSE
    /\ threads = 0
    /\ asyncInits = 0
    /\ openResult = NoOpen
    /\ isoXfr = [s \in Slots |-> "unalloc"]
    /\ irqXfr = "unalloc"
    /\ wpc = "none"
    /\ wi = 1
    /\ hostpc = "idle"
    /\ dkind = "audio"
    /\ di = 1
    /\ li = 1
    /\ lend = 0
    /\ invalid = FALSE
    /\ snapshot = <<>>
    /\ invoked = <<>>
    /\ lastId = [n \in Names |-> 0]
    /\ raised = ""
    /\ drained = [n \in Names |-> 0]
    /\ unlockedWrite = FALSE
    /\ destroyed = FALSE
    /\ produced = 0
    /\ producedMeta = 0
    /\ lastOp = NoOp

sessionVars == <<stopped, pendingCancels, error, datas, metas, mutex, asyncPending>>
queueVars == <<datas, metas, error, asyncPending>>
openVars == <<opened, handle, asyncState, threads, asyncInits, openResult,
              destroyed>>
xfrVars == <<isoXfr, irqXfr>>
workerVars == <<wpc, wi>>
drainVars == <<dkind, di, li, lend, invalid, snapshot, invoked>>
historyVars == <<lastId, raised, drained, unlockedWrite>>
countVars == <<produced, producedMeta>>

----------------------------------------------------------------------------
(* Input::open *)

OpenEnvs == {"list_fail", "open_fail", "detach_fail", "claim_fail", "alt_fail", "ok"}

(* the error open throws, "" when it succeeds; env is what libusb answers *)
OpenError(bus, port, env) ==
    IF ~IsUint32(bus) THEN "Bus needs to be an int"
    ELSE IF ~IsUint32(port) THEN "Port needs to be an int"
    ELSE IF env = "list_fail" THEN "No devices"
    ELSE IF ~DeviceMatches(bus, port) THEN "No handle"
    ELSE IF env = "open_fail" THEN "Can't open"
    ELSE IF env = "detach_fail" THEN "Can't detach kernel driver"
    ELSE IF env = "claim_fail" THEN "Can't claim interface"
    ELSE IF env = "alt_fail" THEN "Can't set alt setting"
    ELSE ""

(* the errors NAN_METHOD(open) throws before it calls Input::open *)
ArgumentErrors == {"Bus needs to be an int", "Port needs to be an int"}

(* Input::handle when open returns: reset to nullptr on entry, set by
   libusb_open, left dangling by the libusb_close of a failure path *)
OpenHandle(err) ==
    IF err \in {"No devices", "No handle", "Can't open"} THEN "null"
    ELSE IF err = "" THEN "open"
    ELSE "closed"

(* NAN_METHOD(open) calling Input::open.  No path looks at opened: a call on
   an opened session runs the same code.  After a second successful call two
   workers share the transfer slots; hostpc = "reopened" ends the modelled
   fragment there. *)
Open(bus, port, env) ==
    /\ hostpc = "idle"
    /\ ~destroyed
    /\ LET err == OpenError(bus, port, env) IN
       /\ handle' = IF err \in ArgumentErrors THEN handle ELSE OpenHandle(err)
       /\ openResult' = [called |-> TRUE, err |-> err,
                         threadsBefore |-> threads, openedBefore |-> opened,
                         bus |-> bus, port |-> port]
       /\ IF err = ""
          THEN /\ opened' = TRUE
               /\ asyncState' = "active"
               /\ asyncInits' = asyncInits + 1
               /\ threads' = threads + 1
               /\ IF threads = 0
                  THEN wpc' = "start" /\ wi' = 1 /\ hostpc' = hostpc
                  ELSE hostpc' = "reopened" /\ UNCHANGED workerVars
          ELSE UNCHANGED <<opened, asyncState, asyncInits, threads, workerVars, hostpc>>
    /\ UNCHANGED <<sessionVars, ons, xfrVars, drainVars, historyVars, countVars,
                   lastOp, destroyed>>

----------------------------------------------------------------------------
(* Input::~Input *)

(* a destructor that leaves the wake handle active *)
UvCloseOmitted(s) == s

(* uv_close: the handle is stopped, its callback is not called again *)
UvClose(s) == "closed"

(* a destructor whose MutexLocker is not in a block of its own: the mutex is
   still held when uv_thread_join is called *)
DestroyBeginHoldingLock ==
    /\ hostpc = "idle"
    /\ ~destroyed
    /\ IF opened
       THEN /\ mutex = "none"
            /\ mutex' = "host"
            /\ stopped' = TRUE
            /\ hostpc' = "join"
            /\ UNCHANGED destroyed
       ELSE /\ destroyed' = TRUE
            /\ UNCHANGED <<stopped, hostpc, mutex>>
    /\ UNCHANGED <<pendingCancels, queueVars, ons, opened, handle,
                   asyncState, threads, asyncInits, openResult,
                   xfrVars, workerVars, drainVars, historyVars, countVars, lastOp>>

(* the destructor up to uv_thread_join *)
DestroyBegin ==
    /\ hostpc = "idle"
    /\ ~destroyed
    /\ IF opened
       THEN /\ mutex = "none"
            /\ stopped' = TRUE
            /\ hostpc' = "join"
            /\ UNCHANGED destroyed
       ELSE /\ destroyed' = TRUE
            /\ UNCHANGED <<stopped, hostpc>>
    /\ UNCHANGED <<pendingCancels, queueVars, mutex, ons, opened, handle,
                   asyncState, threads, asyncInits, openResult,
                   xfrVars, workerVars, drainVars, historyVars, countVars, lastOp>>

(* uv_thread_join returns once the worker has returned; then uv_close,
   libusb_close(handle), libusb_exit.  libusb_close of a null handle returns;
   of a handle already closed it is a use after free: the destructor returns
   or the process dies. *)
DestroyJoin(ub) ==
    /\ hostpc = "join"
    /\ wpc = "done"
    /\ asyncState' = UvClose(asyncState)
    /\ handle' = IF handle = "open" THEN "closed" ELSE handle
    /\ hostpc' = IF handle = "closed" /\ ub = "crash" THEN "crashed" ELSE "idle"
    /\ destroyed' = (hostpc' = "idle")
    /\ UNCHANGED <<opened, threads, asyncInits, openResult,
                   sessionVars, ons, xfrVars, workerVars, drainVars,
                   historyVars, countVars, lastOp>>

----------------------------------------------------------------------------
(* The worker thread: Input::run and the completion callbacks, which libusb
   calls on the worker inside libusb_handle_events_timeout_completed *)

(* a send that wakes nobody *)
AsyncSendNoWake == asyncPending

(* uv_async_send: sends before the callback runs coalesce into one wake *)
AsyncSend == TRUE

(* an insertion at the front in place of push_back *)
PushFront(q, x) == <<x>> \o q

(* std::vector::push_back *)
PushBack(q, x) == Append(q, x)

(* libusb_cancel_transfer: a transfer in flight will complete as cancelled;
   for a transfer not in flight the call fails and no callback follows *)
CancelTransfer(x) == IF x = "inflight" THEN "cancelling" ELSE x

(* libusb_submit_transfer *)
Submit(ok) == IF ok THEN "inflight" ELSE "idle"

(* one round of the allocation loop of Input::run *)
WorkerAllocIso(allocOk, submitOk) ==
    /\ wpc = "start"
    /\ wi <= NumTransfer
    /\ IF ~allocOk
       THEN /\ mutex = "none"
            /\ error' = "Unable to allocate iso xfr"
            /\ asyncPending' = AsyncSend
            /\ wpc' = "done"
            /\ UNCHANGED <<wi, isoXfr>>
       ELSE /\ isoXfr' = [isoXfr EXCEPT ![wi] = Submit(submitOk)]
            /\ wi' = wi + 1
            /\ wpc' = wpc
            /\ IF submitOk
               THEN UNCHANGED <<error, asyncPending>>
               ELSE /\ mutex = "none"
                    /\ error' = "Unable to submit iso xfr"
                    /\ asyncPending' = AsyncSend
    /\ UNCHANGED <<stopped, pendingCancels, datas, metas, mutex, ons, openVars,
                   irqXfr, hostpc, drainVars, historyVars, countVars, lastOp>>

(* the allocation and submission of the interrupt transfer *)
WorkerAllocIrq(allocOk, submitOk) ==
    /\ wpc = "start"
    /\ wi = NumTransfer + 1
    /\ IF ~allocOk
       THEN /\ mutex = "none"
            /\ error' = "Unable to allocate irq xfr"
            /\ asyncPending' = AsyncSend
            /\ wpc' = "done"
            /\ UNCHANGED irqXfr
       ELSE /\ irqXfr' = Submit(submitOk)
            /\ wpc' = "pump"
            /\ IF submitOk
               THEN UNCHANGED <<error, asyncPending>>
               ELSE /\ mutex = "none"
                    /\ error' = "Unable to submit irq xfr"
                    /\ asyncPending' = AsyncSend
    /\ UNCHANGED <<stopped, pendingCancels, datas, metas, mutex, ons, openVars,
                   isoXfr, wi, hostpc, drainVars, historyVars, countVars, lastOp>>

(* libusb_handle_events_timeout_completed returns *)
WorkerPumpReturn ==
    /\ wpc = "pump"
    /\ wpc' = "check"
    /\ UNCHANGED <<sessionVars, ons, openVars, xfrVars, wi, hostpc, drainVars,
                   historyVars, countVars, lastOp>>

(* a loop body without the test of pendingCancels == -1: the counter is set
   and the cancels are issued every time stopped is seen *)
WorkerCheckUngated ==
    /\ wpc = "check"
    /\ mutex = "none"
    /\ IF stopped
       THEN /\ pendingCancels' = 1 + NumTransfer
            /\ irqXfr' = CancelTransfer(irqXfr)
            /\ isoXfr' = [s \in Slots |-> CancelTransfer(isoXfr[s])]
            /\ wpc' = "pump"
       ELSE /\ wpc' = "pump"
            /\ UNCHANGED <<pendingCancels, xfrVars>>
    /\ UNCHANGED <<stopped, queueVars, mutex, ons, openVars, wi, hostpc,
                   drainVars, historyVars, countVars, lastOp>>

(* the body of the for (;;) loop after the pump, under the mutex *)
WorkerCheck ==
    /\ wpc = "check"
    /\ mutex = "none"
    /\ IF stopped
       THEN LET issue == pendingCancels = -1
                pc == IF issue THEN 1 + NumTransfer ELSE pendingCancels
            IN /\ pendingCancels' = pc
               /\ irqXfr' = IF issue THEN CancelTransfer(irqXfr) ELSE irqXfr
               /\ isoXfr' = IF issue THEN [s \in Slots |-> CancelTransfer(isoXfr[s])]
                            ELSE isoXfr
               /\ wpc' = IF pc = 0 THEN "done" ELSE "pump"
       ELSE /\ wpc' = "pump"
            /\ UNCHANGED <<pendingCancels, xfrVars>>
    /\ UNCHANGED <<stopped, queueVars, mutex, ons, openVars, wi, hostpc,
                   drainVars, historyVars, countVars, lastOp>>

(* a packet loop that copies a packet that is not COMPLETED as well *)
RECURSIVE PacketLoopNoSkip(_, _, _)
PacketLoopNoSkip(ps, i, st) ==
    IF i > Len(ps) THEN st
    ELSE IF st.cur + PacketSize > st.end
         THEN [st EXCEPT !.err = "overflow in iso xfr", !.failed = TRUE]
    ELSE PacketLoopNoSkip(ps, i + 1,
             [st EXCEPT !.cur = @ + PacketSize, !.bytes = @ + PacketSize,
                        !.pk = Append(@, i),
                        !.err = IF ps[i] # "COMPLETED" THEN "incomplete iso xfr"
                                ELSE @])

(* the packet loop of transferCallback from packet i on.  st holds cur and
   end as offsets into the malloc'ed buffer, bytes, the packets copied (pk),
   the error string written (err, "" for none) and the local flag error
   (failed). *)
RECURSIVE PacketLoop(_, _, _)
PacketLoop(ps, i, st) ==
    IF i > Len(ps) THEN st
    ELSE IF ps[i] # "COMPLETED"
         THEN PacketLoop(ps, i + 1, [st EXCEPT !.err = "incomplete iso xfr"])
    ELSE IF st.cur + PacketSize > st.end
         THEN [st EXCEPT !.err = "overflow in iso xfr", !.failed = TRUE]
    ELSE PacketLoop(ps, i + 1, [st EXCEPT !.cur = @ + PacketSize,
                                          !.bytes = @ + PacketSize,
                                          !.pk = Append(@, i)])

(* a packet loop over a buffer that is one packet short *)
CopyPacketsShortBuffer(ps) ==
    PacketLoop(ps, 1, [cur |-> 0, end |-> PacketSize * (Len(ps) - 1), bytes |-> 0,
                       pk |-> <<>>, err |-> "", failed |-> FALSE])

(* transferCallback's locals after the packet loop, for num_iso_packets =
   Len(ps) packets with the statuses ps *)
CopyPackets(ps) ==
    PacketLoop(ps, 1, [cur |-> 0, end |-> PacketSize * Len(ps), bytes |-> 0,
                       pk |-> <<>>, err |-> "", failed |-> FALSE])

(* Input::transferCallback for slot s completing with status st and packet
   statuses ps; resubmitOk is the answer of libusb_submit_transfer.  Only a
   transfer the worker cancelled can complete as CANCELLED. *)
TransferCallback(s, st, ps, resubmitOk) ==
    /\ wpc = "pump"
    /\ isoXfr[s] \in {"inflight", "cancelling"}
    /\ st = "CANCELLED" => isoXfr[s] = "cancelling"
    /\ IF st = "CANCELLED"
       THEN /\ pendingCancels' = pendingCancels - 1
            /\ unlockedWrite' = TRUE
            /\ isoXfr' = [isoXfr EXCEPT ![s] = "freed"]
            /\ UNCHANGED <<queueVars, produced>>
       ELSE LET r == CopyPackets(ps) IN
            /\ mutex = "none"
            /\ produced < MaxFrames
            /\ error' = IF r.err # "" THEN r.err ELSE error
            /\ IF r.failed
               THEN UNCHANGED <<datas, produced>>
               ELSE /\ datas' = PushBack(datas, [id |-> produced + 1,
                                                 size |-> r.bytes, pk |-> r.pk])
                    /\ produced' = produced + 1
            /\ asyncPending' = AsyncSend
            /\ isoXfr' = [isoXfr EXCEPT ![s] = Submit(resubmitOk)]
            /\ UNCHANGED <<pendingCancels, metas, unlockedWrite>>
    /\ UNCHANGED <<stopped, mutex, ons, openVars, irqXfr, workerVars, hostpc,
                   drainVars, lastId, raised, drained, producedMeta, lastOp>>

(* the interrupt packets tried: actual_length and buffer[0..5] *)
IrqPackets ==
    { [len |-> 6, buf |-> <<6, 54, 1, 0, 180, 2>>],
      [len |-> 64, buf |-> <<6, 54, 0, 1, 2, 255>>],
      [len |-> 6, buf |-> <<6, 55, 1, 0, 180, 2>>],
      [len |-> 5, buf |-> <<6, 54, 1, 0, 180, 2>>] }

(* does irqCallback parse the packet?  0x06 = 6, 0x36 = 54; buf[k] of the
   model is buffer[k-1] of the code *)
IsMetadata(p) == p.len >= 6 /\ p.buf[1] = 6 /\ p.buf[2] = 54

(* a parse that takes the angle low byte first *)
ParseMetadataLowFirst(p) ==
    [vad |-> p.buf[3], angle |-> (p.buf[5] * 256 + p.buf[4]) % 65536,
     direction |-> p.buf[6]]

(* the record irqCallback builds *)
ParseMetadata(p) ==
    [vad |-> p.buf[3], angle |-> (p.buf[4] * 256 + p.buf[5]) % 65536,
     direction |-> p.buf[6]]

(* Input::irqCallback *)
IrqCallback(st, p, resubmitOk) ==
    /\ wpc = "pump"
    /\ irqXfr \in {"inflight", "cancelling"}
    /\ st = "CANCELLED" => irqXfr = "cancelling"
    /\ IF st # "COMPLETED"
       THEN /\ IF st = "CANCELLED"
               THEN /\ pendingCancels' = pendingCancels - 1
                    /\ unlockedWrite' = TRUE
                    /\ irqXfr' = "freed"
               ELSE /\ irqXfr' = "idle"
                    /\ UNCHANGED <<pendingCancels, unlockedWrite>>
            /\ UNCHANGED <<metas, asyncPending, producedMeta>>
       ELSE /\ IF IsMetadata(p)
               THEN /\ mutex = "none"
                    /\ producedMeta < MaxMetas
                    /\ metas' = PushBack(metas, [id |-> producedMeta + 1,
                                                 rec |-> ParseMetadata(p)])
                    /\ producedMeta' = producedMeta + 1
                    /\ asyncPending' = AsyncSend
               ELSE UNCHANGED <<metas, asyncPending, producedMeta>>
            /\ irqXfr' = Submit(resubmitOk)
            /\ UNCHANGED <<pendingCancels, unlockedWrite>>
    /\ UNCHANGED <<stopped, error, datas, mutex, ons, openVars, isoXfr,
                   workerVars, hostpc, drainVars, lastId, raised, drained,
                   produced, lastOp>>

----------------------------------------------------------------------------
(* The registry entry points.  The host thread calls them from its own code
   (hostpc = "idle") or from inside a listener that the drain callback is
   calling (hostpc = "call"). *)

(* NAN_METHOD(on).  When a listener appends to the list the drain callback
   is walking, push_back may move the list's storage (realloc). *)
On(name, cb, realloc) ==
    /\ hostpc \in {"idle", "call"}
    /\ ~destroyed
    /\ Len(Subscript(ons, name)[name]) < MaxListeners
    /\ ons' = OnOp(ons, name, cb)
    /\ lastOp' = [op |-> "on", ret |-> FALSE]
    /\ invalid' = (invalid \/ (hostpc = "call" /\ name = dkind /\ realloc))
    /\ UNCHANGED <<sessionVars, openVars, xfrVars, workerVars, hostpc, dkind,
                   di, li, lend, snapshot, invoked, historyVars, countVars>>

(* NAN_METHOD(removeListener).  Erasing the last entry of the list the drain
   callback is walking erases the name and with it the list's storage. *)
RemoveListener(name, cb) ==
    /\ hostpc \in {"idle", "call"}
    /\ ~destroyed
    /\ LET r == RemoveListenerOp(ons, name, cb) IN
       /\ ons' = r.ons
       /\ lastOp' = [op |-> "removeListener", ret |-> r.ret]
       /\ invalid' = (invalid \/ (hostpc = "call" /\ name = dkind
                                  /\ name \in DOMAIN ons
                                  /\ name \notin DOMAIN r.ons))
    /\ UNCHANGED <<sessionVars, openVars, xfrVars, workerVars, hostpc, dkind,
                   di, li, lend, snapshot, invoked, historyVars, countVars>>

(* NAN_METHOD(removeAllListeners) *)
RemoveAllListeners(name) ==
    /\ hostpc \in {"idle", "call"}
    /\ ~destroyed
    /\ LET r == RemoveAllListenersOp(ons, name) IN
       /\ ons' = r.ons
       /\ lastOp' = [op |-> "removeAllListeners", ret |-> r.ret]
       /\ invalid' = (invalid \/ (hostpc = "call" /\ name = dkind /\ r.ret))
    /\ UNCHANGED <<sessionVars, openVars, xfrVars, workerVars, hostpc, dkind,
                   di, li, lend, snapshot, invoked, historyVars, countVars>>

----------------------------------------------------------------------------
(* The uv_async callback that open installs: the drain.  Its MutexLocker is
   a local of the whole callback, so the mutex is taken on entry and
   released when the callback returns. *)

Queue(k) == IF k = "audio" THEN datas ELSE metas

(* the value handed to the listeners: the Buffer of data.size bytes, or the
   object {vad, angle, direction} *)
Payload(k, item) ==
    IF k = "audio" THEN item
    ELSE [id |-> item.id,
          rec |-> [vad |-> item.rec.vad = 1, angle |-> item.rec.angle,
                   direction |-> item.rec.direction]]

(* libuv runs the callback for a pending send on an active handle *)
AsyncWake ==
    /\ hostpc = "idle"
    /\ asyncState = "active"
    /\ asyncPending
    /\ mutex = "none"
    /\ mutex' = "host"
    /\ asyncPending' = FALSE
    /\ hostpc' = "item"
    /\ dkind' = "audio"
    /\ di' = 1
    /\ lastOp' = NoOp
    /\ UNCHANGED <<stopped, pendingCancels, error, datas, metas, ons, openVars,
                   xfrVars, workerVars, li, lend, invalid, snapshot, invoked,
                   historyVars, countVars>>

(* the while loop reaches an item: const auto& o = input->ons[name] and the
   range-for takes begin and end *)
DrainNextItem ==
    /\ hostpc = "item"
    /\ di <= Len(Queue(dkind))
    /\ ons' = Subscript(ons, dkind)
    /\ li' = 1
    /\ lend' = Len(ons'[dkind])
    /\ snapshot' = ons'[dkind]
    /\ hostpc' = "loop"
    /\ lastOp' = NoOp
    /\ drained' = [drained EXCEPT ![dkind] = Queue(dkind)[di].id]
    /\ UNCHANGED <<sessionVars, openVars, xfrVars, workerVars, dkind, di,
                   invalid, invoked, lastId, raised, unlockedWrite, countVars>>

(* it == end: the queue is cleared; after audio comes metadata, after
   metadata the pending error *)
DrainEndKind ==
    /\ hostpc = "item"
    /\ di > Len(Queue(dkind))
    /\ IF dkind = "audio"
       THEN /\ datas' = <<>>
            /\ dkind' = "metadata"
            /\ di' = 1
            /\ hostpc' = "item"
            /\ UNCHANGED metas
       ELSE /\ metas' = <<>>
            /\ hostpc' = "error"
            /\ UNCHANGED <<datas, dkind, di>>
    /\ UNCHANGED <<stopped, pendingCancels, error, mutex, asyncPending, ons,
                   openVars, xfrVars, workerVars, li, lend, invalid, snapshot,
                   invoked, historyVars, countVars, lastOp>>

(* cb->Call(1, &value) on the entry the range-for iterator points at, which
   lies in the live list *)
DrainCall ==
    /\ hostpc = "loop"
    /\ li <= lend
    /\ ~invalid
    /\ li <= Len(ons[dkind])
    /\ invoked' = Append(invoked, ons[dkind][li])
    /\ hostpc' = "call"
    /\ UNCHANGED <<sessionVars, ons, openVars, xfrVars, workerVars, dkind, di,
                   li, lend, invalid, snapshot, historyVars, countVars, lastOp>>

(* the iterator points outside the live list (entries were erased and the
   cached end was not) or into released storage: undefined behaviour.  The
   process dies, or the slot reads as an empty callback and is skipped, or
   it still reads as the callback that was there when the pass began. *)
DrainDangling(ub) ==
    /\ hostpc = "loop"
    /\ li <= lend
    /\ IF invalid THEN TRUE ELSE li > Len(ons[dkind])
    /\ IF ub = "crash"
       THEN /\ hostpc' = "crashed"
            /\ UNCHANGED <<li, invoked>>
       ELSE IF ub = "skip"
       THEN /\ li' = li + 1
            /\ UNCHANGED <<hostpc, invoked>>
       ELSE /\ invoked' = Append(invoked, snapshot[li])
            /\ hostpc' = "call"
            /\ UNCHANGED li
    /\ UNCHANGED <<sessionVars, ons, openVars, xfrVars, workerVars, dkind, di,
                   lend, invalid, snapshot, historyVars, countVars, lastOp>>

(* the listener returns and the range-for advances *)
ListenerReturn ==
    /\ hostpc = "call"
    /\ li' = li + 1
    /\ hostpc' = "loop"
    /\ lastId' = [lastId EXCEPT ![dkind] = Queue(dkind)[di].id]
    /\ UNCHANGED <<sessionVars, ons, openVars, xfrVars, workerVars, dkind, di,
                   lend, invalid, snapshot, invoked, raised, drained,
                   unlockedWrite, countVars, lastOp>>

(* the range-for reaches the end it cached: ++it in the while loop *)
DrainLoopEnd ==
    /\ hostpc = "loop"
    /\ li > lend
    /\ di' = di + 1
    /\ hostpc' = "item"
    /\ li' = 1
    /\ lend' = 0
    /\ invalid' = FALSE
    /\ snapshot' = <<>>
    /\ invoked' = <<>>
    /\ UNCHANGED <<sessionVars, ons, openVars, xfrVars, workerVars, dkind,
                   historyVars, countVars, lastOp>>

(* the pending error is thrown and cleared; the callback returns and its
   MutexLocker unlocks *)
DrainError ==
    /\ hostpc = "error"
    /\ raised' = IF error # "" THEN error ELSE raised
    /\ error' = ""
    /\ mutex' = "none"
    /\ hostpc' = "idle"
    /\ dkind' = "audio"
    /\ di' = 1
    /\ UNCHANGED <<stopped, pendingCancels, datas, metas, asyncPending, ons,
                   openVars, xfrVars, workerVars, li, lend, invalid, snapshot,
                   invoked, lastId, drained, unlockedWrite, countVars, lastOp>>

----------------------------------------------------------------------------
(* The session's life: open, the worker from its start to its return, the
   completions, the drain and the destructor.  The host registers listeners
   from its own code; what listeners do to the registry while they are
   being called is the subject of SpecDeliver. *)
HostNext ==
    \/ \E bus \in BusValues, port \in PortValues, env \in OpenEnvs : Open(bus, port, env)
    \/ DestroyBegin
    \/ \E ub \in {"return", "crash"} : DestroyJoin(ub)
    \/ \E name \in Names :
          /\ hostpc = "idle"
          /\ Len(Subscript(ons, name)[name]) < MaxHostListeners
          /\ On(name, "f", FALSE)

DrainNext ==
    \/ AsyncWake
    \/ DrainNextItem
    \/ DrainEndKind
    \/ DrainCall
    \/ ListenerReturn
    \/ DrainLoopEnd
    \/ DrainError

WorkerNext ==
    \/ \E allocOk \in BOOLEAN, submitOk \in BOOLEAN : WorkerAllocIso(allocOk, submitOk)
    \/ \E allocOk \in BOOLEAN, submitOk \in BOOLEAN : WorkerAllocIrq(allocOk, submitOk)
    \/ WorkerPumpReturn
    \/ WorkerCheck
    \/ \E s \in Slots, st \in TransferStatuses, ok \in BOOLEAN :
          TransferCallback(s, st, AllCompleted, ok)
    \/ \E st \in TransferStatuses, p \in IrqPackets, ok \in BOOLEAN : IrqCallback(st, p, ok)

Next == HostNext \/ DrainNext \/ WorkerNext

Spec == Init /\ [][Next]_vars

----------------------------------------------------------------------------
(* The arguments of open: a new session on which open is called with bus
   and port values inside and outside the uint8 range, and the worker that a
   successful call starts up to its event pump. *)
OpenNext ==
    \/ \E bus \in ArgValues, port \in ArgValues, env \in OpenEnvs : Open(bus, port, env)
    \/ \E submitOk \in BOOLEAN : WorkerAllocIso(TRUE, submitOk)
    \/ \E submitOk \in BOOLEAN : WorkerAllocIrq(TRUE, submitOk)

SpecOpen == Init /\ [][OpenNext]_vars

----------------------------------------------------------------------------
(* Delivery: a session that open has opened and whose worker has submitted
   every transfer and is in the event pump.  The worker's callbacks enqueue,
   the host drains, and the host's code and the listeners it calls use the
   registry. *)
InitDeliver ==
    /\ opened = TRUE
    /\ stopped = FALSE
    /\ pendingCancels = -1
    /\ error = ""
    /\ datas = <<>>
    /\ metas = <<>>
    /\ ons = EmptyRegistry
    /\ handle = "open"
    /\ mutex = "none"
    /\ asyncState = "active"
    /\ asyncPending = FALSE
    /\ threads = 1
    /\ asyncInits = 1
    /\ openResult = [called |-> TRUE, err |-> "", threadsBefore |-> 0,
                     openedBefore |-> FALSE, bus |-> 1, port |-> 1]
    /\ isoXfr = [s \in Slots |-> "inflight"]
    /\ irqXfr = "inflight"
    /\ wpc = "pump"
    /\ wi = NumTransfer + 1
    /\ hostpc = "idle"
    /\ dkind = "audio"
    /\ di = 1
    /\ li = 1
    /\ lend = 0
    /\ invalid = FALSE
    /\ snapshot = <<>>
    /\ invoked = <<>>
    /\ lastId = [n \in Names |-> 0]
    /\ raised = ""
    /\ drained = [n \in Names |-> 0]
    /\ unlockedWrite = FALSE
    /\ destroyed = FALSE
    /\ produced = 0
    /\ producedMeta = 0
    /\ lastOp = NoOp

GoodCallbackNext ==
    \/ \E s \in Slots : TransferCallback(s, "COMPLETED", AllCompleted, TRUE)
    \/ \E p \in IrqPackets : IrqCallback("COMPLETED", p, TRUE)

ReentrantNext ==
    \/ \E name \in Names, cb \in Callbacks, realloc \in BOOLEAN :
          /\ Len(Subscript(ons, name)[name]) < MaxWalked
          /\ On(name, cb, realloc)
    \/ \E name \in Names, cb \in Callbacks : RemoveListener(name, cb)
    \/ \E name \in Names : RemoveAllListeners(name)

NextDeliver ==
    \/ ReentrantNext
    \/ DrainNext
    \/ \E ub \in {"crash", "skip", "stale"} : DrainDangling(ub)
    \/ GoodCallbackNext

SpecDeliver == InitDeliver /\ [][NextDeliver]_vars

----------------------------------------------------------------------------
(* The registry: the same session; the host's code uses the registry
   between the drains, and the listeners only return. *)
RegistryNext ==
    \/ \E name \in Names, cb \in Callbacks : hostpc = "idle" /\ On(name, cb, FALSE)
    \/ \E name \in Names, cb \in Callbacks : hostpc = "idle" /\ RemoveListener(name, cb)
    \/ \E name \in Names : hostpc = "idle" /\ RemoveAllListeners(name)

NextRegistry ==
    \/ RegistryNext
    \/ DrainNext
    \/ GoodCallbackNext

SpecRegistry == InitDeliver /\ [][NextRegistry]_vars

----------------------------------------------------------------------------
(* Transfers: the same opened session with one listener per name at most;
   the transfers complete with every status and every combination of packet
   statuses, and resubmission may fail. *)
CallbackNext ==
    \/ \E s \in Slots, st \in TransferStatuses, ps \in PacketStatusVecs, ok \in BOOLEAN :
          TransferCallback(s, st, ps, ok)
    \/ \E st \in TransferStatuses, p \in IrqPackets, ok \in BOOLEAN : IrqCallback(st, p, ok)

NextTransfer ==
    \/ \E name \in Names :
          /\ hostpc = "idle"
          /\ Len(Subscript(ons, name)[name]) < MaxHostListeners
          /\ On(name, "f", FALSE)
    \/ DrainNext
    \/ CallbackNext

SpecTransfer == InitDeliver /\ [][NextTransfer]_vars

(* Shutdown of a delivering session: the opened session whose listeners use
   the registry while they are being called, its worker in the event loop
   checking stopped, and the destructor with the cancelled completions that
   follow it. *)
NextShutdown ==
    \/ \E name \in Names, cb \in Callbacks :
          /\ Len(Subscript(ons, name)[name]) < MaxWalked
          /\ On(name, cb, FALSE)
    \/ \E name \in Names, cb \in Callbacks : RemoveListener(name, cb)
    \/ \E name \in Names : RemoveAllListeners(name)
    \/ DrainNext
    \/ GoodCallbackNext
    \/ WorkerPumpReturn
    \/ WorkerCheck
    \/ \E s \in Slots : TransferCallback(s, "CANCELLED", AllCompleted, TRUE)
    \/ \E p \in IrqPackets : IrqCallback("CANCELLED", p, TRUE)
    \/ DestroyBegin
    \/ \E ub \in {"return", "crash"} : DestroyJoin(ub)

SpecShutdown == InitDeliver /\ [][NextShutdown]_vars

(* The host thread's event loop runs the wake handler for a pending send,
   and a drain that has begun goes on to its end. *)
FairSpecTransfer ==
    SpecTransfer /\ WF_vars(AsyncWake)
                 /\ WF_vars(DrainNextItem \/ DrainEndKind \/ DrainCall
                               \/ ListenerReturn \/ DrainLoopEnd \/ DrainError)

----------------------------------------------------------------------------
(* Scheduling.  The worker thread keeps running: each step of Input::run
   that can be taken is taken, the pump returns (it has a timeout of one
   second), and libusb completes a transfer whose cancellation was asked
   for.  The host thread finishes a drain it has begun and the destructor
   goes on once uv_thread_join can return. *)
CancelledCompletion ==
    \/ \E s \in Slots : TransferCallback(s, "CANCELLED", AllCompleted, TRUE)
    \/ \E p \in IrqPackets : IrqCallback("CANCELLED", p, TRUE)

WorkerStep ==
    \/ \E allocOk \in BOOLEAN, submitOk \in BOOLEAN : WorkerAllocIso(allocOk, submitOk)
    \/ \E allocOk \in BOOLEAN, submitOk \in BOOLEAN : WorkerAllocIrq(allocOk, submitOk)

DrainStep ==
    DrainNextItem \/ DrainEndKind \/ DrainCall \/ ListenerReturn \/ DrainLoopEnd \/ DrainError

Fairness ==
    /\ WF_vars(WorkerStep)
    /\ WF_vars(WorkerPumpReturn)
    /\ WF_vars(WorkerCheck)
    /\ WF_vars(CancelledCompletion)
    /\ WF_vars(DrainStep)
    /\ WF_vars(\E ub \in {"return", "crash"} : DestroyJoin(ub))

FairSpec == Init /\ [][Next]_vars /\ Fairness

(* The registry's session with the host thread's event loop running: the
   wake handler runs for a pending send and a drain that has begun goes on
   to its end. *)
FairSpecRegistry == SpecRegistry /\ WF_vars(AsyncWake) /\ WF_vars(DrainStep)

----------------------------------------------------------------------------
(* Properties *)

IsPrefix(a, b) == Len(a) <= Len(b) /\ SubSeq(b, 1, Len(a)) = a

ListOf(o, name) == IF name \in DOMAIN o THEN o[name] ELSE <<>>

Occurrences(list, cb) == {i \in 1..Len(list) : list[i] = cb}

InDrain == hostpc \in {"item", "loop", "call", "error"}

(* C1: shutdown terminates.  Once the destructor of an opened session has
   set stopped, the worker returns and the destructor's uv_thread_join
   returns, whatever the transfers completed with and whatever the
   submissions answered. *)
C1_ShutdownTerminates == stopped ~> (wpc = "done" /\ hostpc # "join")

(* C2: once the destructor has returned, the host thread is never in the
   drain callback again: no listener is called and no pending error is
   thrown, whatever was queued and whether or not a wake was pending. *)
C2_NoCallbackAfterDestroy == destroyed => ~InDrain

(* the destructor has returned with a frame and a metadata record queued, a
   wake pending and a listener registered for each *)
C2_Witness ==
    /\ destroyed
    /\ opened
    /\ asyncPending
    /\ datas # <<>>
    /\ metas # <<>>
    /\ ListOf(ons, "audio") # <<>>
    /\ ListOf(ons, "metadata") # <<>>

(* C3: deliveries of one event kind are FIFO.  Items carry the number of
   their enqueue; the item a listener is being called with was never
   enqueued before the item of an earlier call of the same kind, in this
   wake-up or an earlier one. *)
C3_Fifo == hostpc = "call" => Queue(dkind)[di].id >= lastId[dkind]

(* a listener is called with the second frame, the first of its wake-up,
   after a call with the first frame returned in an earlier wake-up *)
C3_Witness ==
    /\ hostpc = "call"
    /\ dkind = "audio"
    /\ di = 1
    /\ datas[di].id = 2
    /\ lastId["audio"] = 1

(* C4: the host thread does not hold the session mutex while it calls a
   listener. *)
C4_NoMutexInListener == hostpc = "call" => mutex # "host"

(* C5: a pass over the listeners of an item calls exactly the listeners
   registered when the pass began, once each and in insertion order,
   whatever the listeners do to the registry meanwhile. *)
C5_PassCallsSnapshot ==
    /\ hostpc \in {"loop", "call"} => IsPrefix(invoked, snapshot)
    /\ (hostpc = "loop" /\ li > lend) => invoked = snapshot
    /\ hostpc # "crashed"

(* C6: every audio frame enqueued, and so every frame a listener is called
   with, has size 24 * k with 1 <= k <= NumPackets. *)
C6_FrameSizes ==
    \A i \in 1..Len(datas) :
        \E k \in 1..NumPackets : datas[i].size = PacketSize * k

(* what removeListener(name, cb) must do to the registry before to give
   after, and the value ret it must return: remove the latest entry of cb
   under name and nothing else *)
RemovesLatest(before, after, name, cb, ret) ==
    LET list == ListOf(before, name)
        occ == Occurrences(list, cb)
    IN IF occ = {}
       THEN ret = FALSE /\ after = before
       ELSE LET p == CHOOSE i \in occ : \A j \in occ : j <= i
                rest == [i \in 1..(Len(list) - 1) |->
                            IF i < p THEN list[i] ELSE list[i + 1]]
            IN /\ ret = TRUE
               /\ ListOf(after, name) = rest
               /\ Cardinality(Occurrences(ListOf(after, name), cb))
                      = Cardinality(occ) - 1
               /\ \A n \in Names \ {name} :
                      /\ (n \in DOMAIN after) = (n \in DOMAIN before)
                      /\ ListOf(after, n) = ListOf(before, n)

(* C7: removeListener removes exactly the most recently added entry of the
   callback under the name, keeps the order of the others and returns true;
   when there is no entry it returns false and changes nothing; on adds one
   entry.  So n calls of on are undone by exactly n calls returning true. *)
C7_RemoveListener ==
    [][\A n \in Names, c \in Callbacks :
          /\ (hostpc = "idle" /\ RemoveListener(n, c))
                => RemovesLatest(ons, ons', n, c, lastOp'.ret)
          /\ (hostpc = "idle" /\ On(n, c, FALSE))
                => Cardinality(Occurrences(ListOf(ons', n), c))
                      = Cardinality(Occurrences(ListOf(ons, n), c)) + 1]_vars

(* removeListener has just returned true and left f before g under "audio" *)
C7_Witness ==
    /\ lastOp.op = "removeListener"
    /\ lastOp.ret
    /\ ListOf(ons, "audio") = <<"f", "g">>

(* C8: round trip.  In every reachable state, on(name, cb) followed at once
   by removeListener(name, cb) gives back the registry as it was before
   on: the same names, the same list under each. *)
C8_RoundTrip ==
    [][\A n \in Names, c \in Callbacks :
          (hostpc = "idle" /\ On(n, c, FALSE))
              => RemoveListenerOp(ons', n, c).ons = ons]_vars

(* C9: an open call that fails starts no worker thread and leaves the
   session with opened false. *)
C9_FailedOpenLeavesClosed ==
    (openResult.called /\ openResult.err # "")
        => (~opened /\ threads = openResult.threadsBefore)

(* C10: over all the open calls of a session at most one initializes the
   wake signal and starts a worker thread. *)
C10_OpenedAtMostOnce == threads <= 1 /\ asyncInits <= 1

(* C11: an open call whose bus or port lies outside 0..255 fails with an
   argument error and opens no device; a value above 255 is not taken
   modulo 256. *)
C11_ArgumentsInUint8Range ==
    (openResult.called /\ ~(openResult.bus \in 0..255 /\ openResult.port \in 0..255))
        => (openResult.err \in ArgumentErrors /\ handle # "open")

(* C12: a COMPLETED interrupt transfer enqueues exactly one metadata record
   when actual_length >= 6, buffer[0] = 0x06 and buffer[1] = 0x36, with vad =
   buffer[2], angle = buffer[3] * 256 + buffer[4] and direction = buffer[5],
   handed to the listeners as (vad = 1), an angle in 0..65535 and a direction
   in 0..255; any other packet enqueues nothing; in both cases the transfer
   is submitted again. *)
C12_MetadataParsed ==
    [][\A p \in IrqPackets, ok \in BOOLEAN :
          IrqCallback("COMPLETED", p, ok) =>
             /\ IF p.len >= 6 /\ p.buf[1] = 6 /\ p.buf[2] = 54
                THEN /\ Len(metas') = Len(metas) + 1
                     /\ SubSeq(metas', 1, Len(metas)) = metas
                     /\ LET m == metas'[Len(metas')]
                            v == Payload("metadata", m).rec
                        IN /\ m.rec = [vad |-> p.buf[3],
                                       angle |-> p.buf[4] * 256 + p.buf[5],
                                       direction |-> p.buf[6]]
                           /\ v.vad = (p.buf[3] = 1)
                           /\ v.angle = p.buf[4] * 256 + p.buf[5]
                           /\ v.angle \in 0..65535
                           /\ v.direction = p.buf[6]
                           /\ v.direction \in 0..255
                ELSE metas' = metas
             /\ ok => irqXfr' = "inflight"]_vars

(* the record of the packet 06 36 00 01 02 ff is queued, angle 258, and the
   interrupt transfer is in flight again *)
C12_Witness ==
    /\ metas # <<>>
    /\ metas[1].rec = [vad |-> 0, angle |-> 258, direction |-> 255]
    /\ irqXfr = "inflight"

(* the packets of ps that are COMPLETED, in order *)
CompletedPackets(ps) ==
    SelectSeq([i \in 1..Len(ps) |-> i], LAMBDA i : ps[i] = "COMPLETED")

(* C13: a non-cancelled iso completion in which some packets are not
   COMPLETED enqueues one frame, the in-order concatenation of the payloads
   of exactly the COMPLETED packets, of length 24 times their number; it
   records the error "incomplete iso xfr", which the host thread comes to
   throw; and it submits the transfer again. *)
C13_IncompleteIso ==
    /\ [][\A s \in Slots, st \in TransferStatuses \ {"CANCELLED"},
             ps \in PacketStatusVecs \ {AllCompleted}, ok \in BOOLEAN :
             TransferCallback(s, st, ps, ok) =>
                /\ Len(datas') = Len(datas) + 1
                /\ SubSeq(datas', 1, Len(datas)) = datas
                /\ datas'[Len(datas')].pk = CompletedPackets(ps)
                /\ datas'[Len(datas')].size = PacketSize * Len(CompletedPackets(ps))
                /\ error' = "incomplete iso xfr"
                /\ asyncPending'
                /\ ok => isoXfr'[s] = "inflight"]_vars
    /\ (error = "incomplete iso xfr")
          ~> (error = "" /\ raised = "incomplete iso xfr")

(* the error of an earlier completion has been thrown on the host thread and
   a frame holding only the second packet of its transfer is queued *)
C13_Witness ==
    /\ raised = "incomplete iso xfr"
    /\ datas # <<>>
    /\ datas[1].pk = <<2>>
    /\ datas[1].size = PacketSize

(* the transfers whose cancellation has been asked for and has not completed *)
Cancelling ==
    {s \in Slots : isoXfr[s] = "cancelling"}
        \cup (IF irqXfr = "cancelling" THEN {0} ELSE {})

(* C14: the cancel counter.  pendingCancels is -1 until the worker sees
   stopped; the worker then sets it to 1 + NumTransfer and asks for the
   cancellation of the interrupt transfer and of every iso transfer, once
   in the session's life; afterwards it only goes down, by one for each
   CANCELLED completion, and never below 0; and the worker's loop ends in
   exactly the rounds where stopped is set and the counter is 0. *)
C14_CancelProtocol ==
    /\ [](~stopped => pendingCancels = -1)
    /\ [](pendingCancels \in {-1} \cup 0..(1 + NumTransfer))
    /\ [][/\ pendingCancels' # pendingCancels =>
                \/ /\ pendingCancels = -1
                   /\ stopped
                   /\ wpc = "check"
                   /\ pendingCancels' = 1 + NumTransfer
                   /\ irqXfr' = CancelTransfer(irqXfr)
                   /\ \A s \in Slots : isoXfr'[s] = CancelTransfer(isoXfr[s])
                \/ /\ pendingCancels > 0
                   /\ pendingCancels' = pendingCancels - 1
                   /\ Cardinality(Cancelling') = Cardinality(Cancelling) - 1
          /\ ~(Cancelling' \subseteq Cancelling) =>
                (pendingCancels = -1 /\ pendingCancels' = 1 + NumTransfer)
          /\ (wpc = "check" /\ wpc' # wpc) =>
                ((wpc' = "done") <=> (stopped /\ pendingCancels' = 0))]_vars

(* the worker has left its loop: stopped is set, every transfer was cancelled
   and the counter has come down to 0 *)
C14_Witness ==
    /\ stopped
    /\ pendingCancels = 0
    /\ wpc = "done"
    /\ irqXfr = "freed"
    /\ \A s \in Slots : isoXfr[s] = "freed"

(* C15: while the session is opened and not stopped and the worker is in its
   event loop, every iso transfer and the interrupt transfer is in flight
   (a completion callback resubmits within its own step): no completion
   status and no failed submission leaves a transfer idle. *)
C15_TransfersInFlight ==
    (opened /\ ~stopped /\ threads = 1 /\ wpc \in {"pump", "check"})
        => (irqXfr = "inflight" /\ \A s \in Slots : isoXfr[s] = "inflight")

(* C16: every write to the audio queue, the metadata queue, the pending
   error, stopped and pendingCancels is made by a thread that holds the
   session mutex, the decrements of pendingCancels in the CANCELLED branches
   of the completion callbacks included. *)
C16_WritesUnderMutex == ~unlockedWrite

(* C17: before destruction, opened implies that the worker thread is running
   and that the device handle is valid, also after the worker has reported
   an allocation failure at startup.  The states looked at are those of a
   session opened by its only open call. *)
C17_OpenedImpliesLive ==
    (opened /\ ~stopped /\ ~destroyed /\ threads = 1 /\ openResult.err = "")
        => (wpc \in {"start", "pump", "check"} /\ handle = "open")

(* C18: every frame and every record the worker enqueues is reached by
   exactly one drain, in the order of the enqueues, and the drain calls
   with it every listener registered under its name; none is lost and none
   is reached twice, whether or not several sends were coalesced into one
   wake-up, provided the host thread runs the wake handler. *)
C18_DeliveredOnce ==
    /\ [][drained' # drained =>
             \E k \in Names :
                /\ drained' = [drained EXCEPT ![k] = drained[k] + 1]
                /\ hostpc' = "loop" /\ dkind' = k
                /\ Queue(k)[di'].id = drained'[k]]_vars
    /\ [](hostpc = "idle" => /\ drained["audio"] + Len(datas) = produced
                            /\ drained["metadata"] + Len(metas) = producedMeta)
    /\ []((hostpc = "loop" /\ li > lend) => invoked = ons[dkind])
    /\ \A n \in 1..MaxFrames : (produced >= n) ~> (drained["audio"] >= n)
    /\ \A n \in 1..MaxMetas : (producedMeta >= n) ~> (drained["metadata"] >= n)

(* two frames enqueued before one wake-up: the drain has called a listener
   with the first and is calling one with the second *)
C18_Witness ==
    /\ hostpc = "call"
    /\ dkind = "audio"
    /\ di = 2
    /\ Len(datas) = 2
    /\ lastId["audio"] = 1
    /\ drained["audio"] = 2

(* C19: no deadlock between the host thread and the worker.  The host thread
   never waits in uv_thread_join while it holds the session mutex, so the
   worker's stopped check can take the mutex; the host thread holds the
   mutex only inside the drain callback, where neither the drain nor the
   registry operations its listeners call take the mutex again; and the
   worker holds the mutex only within a step. *)
C19_NoDeadlock ==
    /\ hostpc = "join" => mutex = "none"
    /\ (hostpc = "join" /\ wpc = "check") => ENABLED WorkerCheck
    /\ mutex \in {"none", "host"}
    /\ mutex = "host" => InDrain
    /\ hostpc = "call" =>
          /\ ENABLED ListenerReturn
          /\ \A n \in Names, c \in Callbacks : ENABLED RemoveListener(n, c)
          /\ \A n \in Names : ENABLED RemoveAllListeners(n)

(* the destructor waits in uv_thread_join and the worker is at its stopped
   check with cancellations outstanding, after listeners were called and
   the registry was emptied *)
C19_Witness ==
    /\ hostpc = "join"
    /\ wpc = "check"
    /\ pendingCancels > 0
    /\ lastId["audio"] >= 1
    /\ lastOp.op = "removeAllListeners"

(* C20: between the operations and the delivery passes no event name of the
   registry maps to an empty list, so that removeAllListeners(name) returns
   true exactly when a listener is registered under name. *)
C20_NoEmptyList ==
    hostpc = "idle" => \A n \in DOMAIN ons : ons[n] # <<>>

(* C21: the overflow branch of transferCallback is never taken.  The buffer
   holds PacketSize * num_iso_packets bytes and at most num_iso_packets
   packets of PacketSize bytes are copied, for every number of packets and
   every combination of their statuses; so the error "overflow in iso xfr"
   is never recorded or thrown, and every non-cancelled iso completion
   enqueues exactly one frame. *)
C21_NoOverflow ==
    /\ [](error # "overflow in iso xfr" /\ raised # "overflow in iso xfr")
    /\ [](\A n \in 0..NumPackets : \A ps \in [1..n -> PacketStatuses] :
             LET r == CopyPackets(ps) IN
             /\ ~r.failed
             /\ r.err # "overflow in iso xfr"
             /\ r.cur <= r.end
             /\ r.bytes = r.cur)
    /\ [][\A s \in Slots, st \in TransferStatuses \ {"CANCELLED"},
             ps \in PacketStatusVecs, ok \in BOOLEAN :
             TransferCallback(s, st, ps, ok) =>
                /\ Len(datas') = Len(datas) + 1
                /\ SubSeq(datas', 1, Len(datas)) = datas
                /\ produced' = produced + 1]_vars

(* a completion with every packet COMPLETED has filled its buffer to the
   last byte and its frame is queued, with no error recorded *)
C21_Witness ==
    /\ datas # <<>>
    /\ datas[1].size = PacketSize * NumPackets
    /\ Len(datas[1].pk) = NumPackets
    /\ error = ""

====
